---- MODULE Spec2Model ----
(***************************************************************************)
(* Model of run_hri.py: OISST daily files -> Jeju mean SST (T_t) -> HRI    *)
(* -> level mapping -> CSV / trigger list / final alert event.             *)
(*                                                                         *)
(* Numbers.  Temperatures and V_var are integers in tenths of a degree     *)
(* Celsius (28.0 degC = 280).  HRI is an integer in millionths             *)
(* (3.0 = 3000000).  The weights ALPHA, BETA, GAMMA are in tenths.  All    *)
(* temperatures of the model are multiples of 0.5 degC, so the two linear  *)
(* terms of HRI are multiples of 0.25; the logarithm term 0.8*ln(n) lies   *)
(* further than 0.001 from every multiple of 0.25 for n in 2..10, and is   *)
(* exactly 0 for n = 1, so truncating it to millionths decides             *)
(* HRI >= HRI_THRESHOLD exactly as the floating-point code does.           *)
(* A missing value (numpy NaN) is the value NaN below; every arithmetic    *)
(* operator propagates it the way numpy / pandas do.                       *)
(***************************************************************************)
EXTENDS Integers, Sequences, FiniteSets, TLC

VARIABLES pc, nDays, day, rows, unavailable, df_daily, df_hri,
          hri_csv, trigger_json, final_json, written,
          arg_T, arg_D, level_out

vars == <<pc, nDays, day, rows, unavailable, df_daily, df_hri,
          hri_csv, trigger_json, final_json, written,
          arg_T, arg_D, level_out>>

-----------------------------------------------------------------------------
(* Bounds of the model *)

MaxDays == 4

MaxLen == 3

MaxDcon == 5

-----------------------------------------------------------------------------
(* Settings *)

T_BASE == 280

ALPHA == 10

BETA == 8

GAMMA == 5

HRI_THRESHOLD == 3000000

SEVERE_TEMP == 300

\* the literal 3 of the level mapping and of the event's threshold block
WARNING_DURATION_DAYS == 3

REGION_ID == "JEJU_OFFSHORE"

DATASET_NAME == "NOAA OISST v2.1 AVHRR daily (0.25deg)"

MODEL_VERSION == "hri-v1.1-levels"

START_DATE == <<2024, 7, 20>>

NaN == -999999

\* Temperatures a day's ROI mean can take in the model (tenths of degC).
Temps == {200, 270, 280, 295, 300}

\* Extra temperatures next to the two thresholds, for the level mapping.
LevelTemps == Temps \cup {279, 281, 299, 301}

NoFile == <<"no file">>

-----------------------------------------------------------------------------
(* numpy / pandas primitives *)

isfinite(x) == x # NaN

\* np.maximum(0.0, x): NaN propagates
maximum0(x) == IF x = NaN THEN NaN ELSE IF x > 0 THEN x ELSE 0

\* x - y on floats: NaN propagates
fsub(x, y) == IF x = NaN \/ y = NaN THEN NaN ELSE x - y

\* Series.diff(): row 1 has no predecessor and gets NaN
diff(ts) == [i \in 1..Len(ts) |-> IF i = 1 THEN NaN ELSE fsub(ts[i], ts[i-1])]

\* Series.abs(): NaN stays NaN
abs(s) == [i \in 1..Len(s) |-> IF s[i] = NaN THEN NaN
                               ELSE IF s[i] < 0 THEN 0 - s[i] ELSE s[i]]

fillna_Keep(s, v) == s

\* Series.fillna(v)
fillna(s, v) == [i \in 1..Len(s) |-> IF s[i] = NaN THEN v ELSE s[i]]

\* np.log(n) for the integers the streak can reach, in millionths
log(n) == CASE n = 1 -> 0
            [] n = 2 -> 693147
            [] n = 3 -> 1098612
            [] n = 4 -> 1386294
            [] n = 5 -> 1609437
            [] n = 6 -> 1791759
            [] n = 7 -> 1945910
            [] n = 8 -> 2079441
            [] n = 9 -> 2197224
            [] OTHER -> 2302585

\* calendar: datetime + timedelta(days) and strftime("%Y-%m-%d")
DaysInMonth(y, m) ==
    IF m = 2 THEN (IF (y % 4 = 0 /\ y % 100 # 0) \/ y % 400 = 0 THEN 29 ELSE 28)
    ELSE IF m \in {4, 6, 9, 11} THEN 30 ELSE 31

NextDate(d) ==
    IF d[3] < DaysInMonth(d[1], d[2]) THEN <<d[1], d[2], d[3] + 1>>
    ELSE IF d[2] < 12 THEN <<d[1], d[2] + 1, 1>>
    ELSE <<d[1] + 1, 1, 1>>

RECURSIVE daterange(_)
\* the date of the k-th day of the run (k = 1 is START_DATE)
daterange(k) == IF k <= 1 THEN START_DATE ELSE NextDate(daterange(k - 1))

\* "%Y-%m-%d": the year, month and day fields of the calendar date, in order
strftime(k) == daterange(k)

-----------------------------------------------------------------------------
(* risk_level_from_T_D *)

risk_level_SevereExclusive(T_t, D_con) ==
    IF ~isfinite(T_t) THEN "UNKNOWN"
    ELSE IF T_t < T_BASE THEN "NORMAL"
    ELSE IF D_con < WARNING_DURATION_DAYS THEN "WATCH"
    ELSE IF T_t <= SEVERE_TEMP THEN "WARNING"
    ELSE "SEVERE"

risk_level_WatchTwo(T_t, D_con) ==
    IF ~isfinite(T_t) THEN "UNKNOWN"
    ELSE IF T_t < T_BASE THEN "NORMAL"
    ELSE IF D_con < 2 THEN "WATCH"
    ELSE IF T_t < SEVERE_TEMP THEN "WARNING"
    ELSE "SEVERE"

risk_level_from_T_D(T_t, D_con) ==
    IF ~isfinite(T_t) THEN "UNKNOWN"
    ELSE IF T_t < T_BASE THEN "NORMAL"
    ELSE IF D_con < WARNING_DURATION_DAYS THEN "WATCH"
    ELSE IF T_t < SEVERE_TEMP THEN "WARNING"
    ELSE "SEVERE"

-----------------------------------------------------------------------------
(* build_hri *)

RECURSIVE sort_values_Descending(_)
sort_values_Descending(df) ==
    IF df = <<>> THEN <<>>
    ELSE LET i == CHOOSE k \in 1..Len(df) :
                    \A j \in 1..Len(df) : df[k].date >= df[j].date
         IN <<df[i]>> \o sort_values_Descending(SubSeq(df, 1, i - 1)
                                                 \o SubSeq(df, i + 1, Len(df)))

RECURSIVE sort_values(_)

\* df.sort_values("date").reset_index(drop=True): rows in ascending date
sort_values(df) ==
    IF df = <<>> THEN <<>>
    ELSE LET i == CHOOSE k \in 1..Len(df) :
                    \A j \in 1..Len(df) : df[k].date <= df[j].date
         IN <<df[i]>> \o sort_values(SubSeq(df, 1, i - 1) \o SubSeq(df, i + 1, Len(df)))

StreakStep_NoReset(streak, t) ==
    IF isfinite(t) /\ t >= T_BASE THEN streak + 1 ELSE streak

\* one iteration of the streak loop
StreakStep(streak, t) ==
    IF isfinite(t) /\ t >= T_BASE THEN streak + 1 ELSE 0

RECURSIVE DconLoop(_, _, _, _)
\* the loop over df["T_t"].values: streak and the list dcon built so far
DconLoop(ts, i, streak, dcon) ==
    IF i > Len(ts) THEN dcon
    ELSE LET s == StreakStep(streak, ts[i])
         IN DconLoop(ts, i + 1, s, Append(dcon, s))

\* ALPHA*max(0, T_t - T_BASE) + BETA*ln(D_con + 1) + GAMMA*V_var, millionths
HRI(T_t, D_con, V_var) ==
    LET excess == maximum0(fsub(T_t, T_BASE))
    IN IF excess = NaN \/ V_var = NaN THEN NaN
       ELSE ALPHA * excess * 10000 + (BETA * log(D_con + 1)) \div 10
            + GAMMA * V_var * 10000

\* df["HRI"] >= HRI_THRESHOLD: a comparison with NaN is False
ge_threshold(h) == h # NaN /\ h >= HRI_THRESHOLD

build_hri(df_in) ==
    LET df   == sort_values(df_in)
        ts   == [i \in 1..Len(df) |-> df[i].T_t]
        dcon == DconLoop(ts, 1, 0, <<>>)
        vvar == fillna(abs(diff(ts)), 0)
    IN [i \in 1..Len(df) |->
          [date    |-> df[i].date,
           file    |-> df[i].file,
           T_t     |-> ts[i],
           D_con   |-> dcon[i],
           V_var   |-> vvar[i],
           HRI     |-> HRI(ts[i], dcon[i], vvar[i]),
           trigger |-> ge_threshold(HRI(ts[i], dcon[i], vvar[i])),
           level   |-> risk_level_from_T_D(ts[i], dcon[i])]]

-----------------------------------------------------------------------------
(* main: the pieces between build_hri and the three files *)

\* os.path.basename(nc_path): oisst-avhrr-v02r01.YYYYMMDD.nc
basename(k) == <<"oisst-avhrr-v02r01", daterange(k), "nc">>

\* one entry of rows for the k-th day
DailyRow(k, t) == [date |-> k, file |-> basename(k), T_t |-> t]

no_rows_Never(rs) == FALSE

\* "if not rows"
no_rows(rs) == rs = <<>>

\* df_hri.to_csv: one line per row, the date written as YYYY-MM-DD
to_csv(df) ==
    [i \in 1..Len(df) |-> [df[i] EXCEPT !.date = strftime(df[i].date)]]

RECURSIVE select_trigger(_)
\* df_hri[df_hri["trigger"]]: the rows with trigger, in table order
select_trigger(df) ==
    IF df = <<>> THEN <<>>
    ELSE IF Head(df).trigger THEN <<Head(df)>> \o select_trigger(Tail(df))
    ELSE select_trigger(Tail(df))

\* triggered.to_dict(orient="records") with the date as a string
trigger_records(df) == to_csv(select_trigger(df))

has_triggers_MoreThanOne(trigger_list) == Len(trigger_list) > 1

\* "if len(trigger_list) > 0"
has_triggers(trigger_list) == Len(trigger_list) > 0

first_trigger_row_Last(df) == select_trigger(df)[Len(select_trigger(df))]

\* df_hri[df_hri["trigger"]].iloc[0]
first_trigger_row(df) == select_trigger(df)[1]

\* float(x); NaN stays NaN
to_float(x) == x

\* the roi block of "source" holds only the four bounding-box settings
build_final_event(row) ==
    LET date_str == strftime(row.date)
    IN [event_type |-> "HRI_TRIGGER",
        region     |-> REGION_ID,
        date       |-> date_str,
        metrics    |-> [T_t   |-> to_float(row.T_t),
                        D_con |-> row.D_con,
                        V_var |-> to_float(row.V_var),
                        HRI   |-> to_float(row.HRI)],
        threshold  |-> [HRI |-> HRI_THRESHOLD, T_base |-> T_BASE,
                        severe_temp |-> SEVERE_TEMP,
                        warning_duration_days |-> WARNING_DURATION_DAYS],
        weights    |-> [alpha |-> ALPHA, beta |-> BETA, gamma |-> GAMMA],
        source     |-> [dataset |-> DATASET_NAME, model_version |-> MODEL_VERSION],
        decision   |-> [triggered |-> TRUE, level |-> row.level],
        message    |-> <<REGION_ID, row.level, "HRI trigger on", date_str>>]

\* JSON null
Null == <<>>

\* the "empty" final payload of the else branch
no_trigger_event ==
    [event_type |-> "HRI_TRIGGER",
     region     |-> REGION_ID,
     date       |-> Null,
     decision   |-> [triggered |-> FALSE, level |-> "NORMAL"],
     message    |-> <<REGION_ID, "No trigger in", START_DATE, daterange(nDays)>>]

-----------------------------------------------------------------------------
(* main as a state machine *)

TempsOrNaN == Temps \cup {NaN}

Init ==
    /\ pc = "fetch"
    /\ nDays \in 0..MaxDays
    /\ day = 1
    /\ rows = <<>>
    /\ unavailable = {}
    /\ df_daily = <<>>
    /\ df_hri = <<>>
    /\ hri_csv = NoFile
    /\ trigger_json = NoFile
    /\ final_json = NoFile
    /\ written = <<>>
    /\ arg_T = NaN
    /\ arg_D = 0
    /\ level_out = ""

\* ensure_oisst_file returns None: the day is skipped
DownloadFailed ==
    /\ pc = "fetch"
    /\ day <= nDays
    /\ unavailable' = unavailable \cup {[day |-> day, why |-> "download"]}
    /\ day' = day + 1
    /\ UNCHANGED <<pc, nDays, rows, df_daily, df_hri, hri_csv, trigger_json,
                   final_json, written, arg_T, arg_D, level_out>>

\* compute_jeju_mean_sst raises: the exception is caught and logged
ParseFailed ==
    /\ pc = "fetch"
    /\ day <= nDays
    /\ unavailable' = unavailable \cup {[day |-> day, why |-> "parse"]}
    /\ day' = day + 1
    /\ UNCHANGED <<pc, nDays, rows, df_daily, df_hri, hri_csv, trigger_json,
                   final_json, written, arg_T, arg_D, level_out>>

\* compute_jeju_mean_sst returns the ROI mean (NaN when the ROI holds no value)
DayProcessed ==
    /\ pc = "fetch"
    /\ day <= nDays
    /\ \E t \in TempsOrNaN : rows' = Append(rows, DailyRow(day, t))
    /\ day' = day + 1
    /\ UNCHANGED <<pc, nDays, unavailable, df_daily, df_hri, hri_csv,
                   trigger_json, final_json, written, arg_T, arg_D, level_out>>

\* raise RuntimeError("No processed days. ...")
RaiseNoProcessedDays ==
    /\ pc = "fetch"
    /\ day > nDays
    /\ no_rows(rows)
    /\ pc' = "raised"
    /\ UNCHANGED <<nDays, day, rows, unavailable, df_daily, df_hri, hri_csv,
                   trigger_json, final_json, written, arg_T, arg_D, level_out>>

\* df_daily = pd.DataFrame(rows); df_hri = build_hri(df_daily)
BuildTable ==
    /\ pc = "fetch"
    /\ day > nDays
    /\ ~no_rows(rows)
    /\ df_daily' = rows
    /\ df_hri' = build_hri(rows)
    /\ pc' = "csv"
    /\ UNCHANGED <<nDays, day, rows, unavailable, hri_csv, trigger_json,
                   final_json, written, arg_T, arg_D, level_out>>

WriteCsv ==
    /\ pc = "csv"
    /\ hri_csv' = to_csv(df_hri)
    /\ written' = Append(written, "OUT_HRI_CSV")
    /\ pc' = "list"
    /\ UNCHANGED <<nDays, day, rows, unavailable, df_daily, df_hri,
                   trigger_json, final_json, arg_T, arg_D, level_out>>

WriteTriggerList ==
    /\ pc = "list"
    /\ trigger_json' = trigger_records(df_hri)
    /\ written' = Append(written, "OUT_TRIGGER_LIST_JSON")
    /\ pc' = "final"
    /\ UNCHANGED <<nDays, day, rows, unavailable, df_daily, df_hri,
                   hri_csv, final_json, arg_T, arg_D, level_out>>

WriteFinalEvent ==
    /\ pc = "final"
    /\ has_triggers(trigger_json)
    /\ final_json' = build_final_event(first_trigger_row(df_hri))
    /\ written' = Append(written, "OUT_FINAL_EVENT_JSON")
    /\ pc' = "done"
    /\ UNCHANGED <<nDays, day, rows, unavailable, df_daily, df_hri,
                   hri_csv, trigger_json, arg_T, arg_D, level_out>>

WriteNoTriggerEvent ==
    /\ pc = "final"
    /\ ~has_triggers(trigger_json)
    /\ final_json' = no_trigger_event
    /\ written' = Append(written, "OUT_FINAL_EVENT_JSON")
    /\ pc' = "done"
    /\ UNCHANGED <<nDays, day, rows, unavailable, df_daily, df_hri,
                   hri_csv, trigger_json, arg_T, arg_D, level_out>>

Next ==
    \/ DownloadFailed
    \/ ParseFailed
    \/ DayProcessed
    \/ RaiseNoProcessedDays
    \/ BuildTable
    \/ WriteCsv
    \/ WriteTriggerList
    \/ WriteFinalEvent
    \/ WriteNoTriggerEvent

Spec == Init /\ [][Next]_vars

-----------------------------------------------------------------------------
(* build_hri called on any daily table main can hand it: one row per         *)
(* processed day, in date order, the days that failed left out              *)

\* the dates of n processed days among MaxLen + 1 requested ones
ProcessedDates(n) ==
    {d \in [1..n -> 1..(MaxLen + 1)] : \A i, j \in 1..n : i < j => d[i] < d[j]}

BuildInputs ==
    UNION {{[i \in 1..n |-> DailyRow(d[i], t[i])] :
               d \in ProcessedDates(n), t \in [1..n -> TempsOrNaN]} : n \in 1..MaxLen}

InitBuild ==
    /\ pc = "call"
    /\ df_daily \in BuildInputs
    /\ df_hri = <<>>
    /\ nDays = 0
    /\ day = 1
    /\ rows = <<>>
    /\ unavailable = {}
    /\ hri_csv = NoFile
    /\ trigger_json = NoFile
    /\ final_json = NoFile
    /\ written = <<>>
    /\ arg_T = NaN
    /\ arg_D = 0
    /\ level_out = ""

\* df_hri = build_hri(df_daily): works on a copy, returns the new table
CallBuildHri ==
    /\ pc = "call"
    /\ df_hri' = build_hri(df_daily)
    /\ pc' = "returned"
    /\ UNCHANGED <<nDays, day, rows, unavailable, df_daily, hri_csv,
                   trigger_json, final_json, written, arg_T, arg_D, level_out>>

NextBuild == CallBuildHri

SpecBuild == InitBuild /\ [][NextBuild]_vars

-----------------------------------------------------------------------------
(* risk_level_from_T_D called on any pair *)

InitLevel ==
    /\ pc = "level_call"
    /\ arg_T \in LevelTemps \cup {NaN}
    /\ arg_D \in 0..MaxDcon
    /\ level_out = ""
    /\ nDays = 0
    /\ day = 1
    /\ rows = <<>>
    /\ unavailable = {}
    /\ df_daily = <<>>
    /\ df_hri = <<>>
    /\ hri_csv = NoFile
    /\ trigger_json = NoFile
    /\ final_json = NoFile
    /\ written = <<>>

CallRiskLevel ==
    /\ pc = "level_call"
    /\ level_out' = risk_level_from_T_D(arg_T, arg_D)
    /\ pc' = "level_returned"
    /\ UNCHANGED <<nDays, day, rows, unavailable, df_daily, df_hri, hri_csv,
                   trigger_json, final_json, written, arg_T, arg_D>>

NextLevel == CallRiskLevel

SpecLevel == InitLevel /\ [][NextLevel]_vars

-----------------------------------------------------------------------------
(* Properties *)

Qualifies(t) == isfinite(t) /\ t >= T_BASE

Returned == pc = "returned"

\* C1: in the table build_hri returns, every row t has D_con(t) = D_con(t-1) + 1
\* (D_con before the first row being 0) when T_t is finite and T_t >= T_BASE,
\* and D_con(t) = 0 otherwise.
C1_StreakRecurrence ==
    Returned =>
        \A i \in 1..Len(df_hri) :
            LET prev == IF i = 1 THEN 0 ELSE df_hri[i-1].D_con
            IN df_hri[i].D_con = IF Qualifies(df_hri[i].T_t) THEN prev + 1 ELSE 0

\* a run of two qualifying days followed by the day that breaks it
C1_Witness ==
    /\ Returned
    /\ \E i \in 2..Len(df_hri) - 1 :
          /\ df_hri[i].D_con = 2
          /\ df_hri[i+1].D_con = 0

\* C2: risk_level_from_T_D returns the first matching row of the decision
\* table: UNKNOWN for a non-finite T_t, NORMAL below T_BASE, WATCH from T_BASE
\* with D_con < 3, WARNING with D_con >= 3 below SEVERE_TEMP, SEVERE with
\* D_con >= 3 from SEVERE_TEMP (inclusive); the level is determined by the pair.
C2_DecisionTable ==
    pc = "level_returned" =>
        /\ ~isfinite(arg_T) => level_out = "UNKNOWN"
        /\ isfinite(arg_T) /\ arg_T < T_BASE => level_out = "NORMAL"
        /\ isfinite(arg_T) /\ arg_T >= T_BASE /\ arg_D < WARNING_DURATION_DAYS
              => level_out = "WATCH"
        /\ isfinite(arg_T) /\ arg_T >= T_BASE /\ arg_D >= WARNING_DURATION_DAYS
              /\ arg_T < SEVERE_TEMP => level_out = "WARNING"
        /\ isfinite(arg_T) /\ arg_T >= T_BASE /\ arg_D >= WARNING_DURATION_DAYS
              /\ arg_T >= SEVERE_TEMP => level_out = "SEVERE"

\* the inclusive boundary: exactly SEVERE_TEMP on the third day
C2_Witness ==
    /\ pc = "level_returned"
    /\ arg_T = SEVERE_TEMP
    /\ arg_D = WARNING_DURATION_DAYS
    /\ level_out = "SEVERE"

\* C3 (as claimed): a requested day whose file could not be downloaded or
\* parsed, in a run where other days succeed, is carried in the table as a row
\* with a non-finite T_t, level UNKNOWN, D_con = 0 and trigger = false, and
\* the next qualifying day has D_con = 1.
C3_MissingDayCarried ==
    pc = "done" =>
        \A u \in unavailable :
            \E i \in 1..Len(df_hri) :
                /\ df_hri[i].date = u.day
                /\ ~isfinite(df_hri[i].T_t)
                /\ df_hri[i].level = "UNKNOWN"
                /\ df_hri[i].D_con = 0
                /\ df_hri[i].trigger = FALSE
                /\ (i < Len(df_hri) /\ Qualifies(df_hri[i+1].T_t))
                      => df_hri[i+1].D_con = 1

TriggerRows == {i \in 1..Len(df_hri) : df_hri[i].trigger}

\* C4: when some day has trigger = true, the final event is built from the
\* earliest-dated triggering day, has triggered = true, and its date, T_t,
\* D_con, V_var, HRI and level equal that day's row of the CSV.
C4_FirstTriggerEvent ==
    (pc = "done" /\ TriggerRows # {}) =>
        \E i \in TriggerRows :
            /\ \A j \in TriggerRows : df_hri[i].date <= df_hri[j].date
            /\ final_json.decision.triggered = TRUE
            /\ final_json.date = hri_csv[i].date
            /\ final_json.metrics.T_t = hri_csv[i].T_t
            /\ final_json.metrics.D_con = hri_csv[i].D_con
            /\ final_json.metrics.V_var = hri_csv[i].V_var
            /\ final_json.metrics.HRI = hri_csv[i].HRI
            /\ final_json.decision.level = hri_csv[i].level
            /\ hri_csv[i].trigger = TRUE

\* two triggering days with different metrics, the event written
C4_Witness ==
    /\ pc = "done"
    /\ \E i, j \in TriggerRows : i < j /\ df_hri[i].HRI # df_hri[j].HRI

FinalWrites == {k \in 1..Len(written) : written[k] = "OUT_FINAL_EVENT_JSON"}

\* C5: a run over a non-empty series ends without an error having written
\* exactly one final event: triggered = false, level NORMAL, date null when no
\* day has HRI >= HRI_THRESHOLD, and triggered = true otherwise.
C5_OneFinalEvent ==
    /\ pc = "raised" => rows = <<>>
    /\ (pc = "fetch" /\ day > nDays /\ rows # <<>>) =>
          ~ENABLED RaiseNoProcessedDays
    /\ pc \in {"fetch", "csv", "list"} => FinalWrites = {}
    /\ pc = "final" =>
          /\ FinalWrites = {}
          /\ (ENABLED WriteFinalEvent) # (ENABLED WriteNoTriggerEvent)
    /\ pc = "done" =>
          /\ Cardinality(FinalWrites) = 1
          /\ (\A i \in 1..Len(df_hri) : ~ge_threshold(df_hri[i].HRI)) =>
                /\ final_json.decision = [triggered |-> FALSE, level |-> "NORMAL"]
                /\ final_json.date = Null
          /\ (\E i \in 1..Len(df_hri) : ge_threshold(df_hri[i].HRI)) =>
                final_json.decision.triggered = TRUE

\* a finished run of three days above T_BASE in which no day triggers
C5_Witness ==
    /\ pc = "done"
    /\ Len(df_hri) >= 3
    /\ \A i \in 1..Len(df_hri) : Qualifies(df_hri[i].T_t)
    /\ final_json.decision.triggered = FALSE

\* C6: when no observation is obtained (every day fails, or the range is
\* empty) the run raises and none of the three output files has been written.
C6_EmptySeriesRaises ==
    /\ (pc = "fetch" /\ day > nDays /\ rows = <<>>) =>
          (ENABLED RaiseNoProcessedDays /\ ~ENABLED BuildTable)
    /\ rows = <<>> =>
          /\ pc \in {"fetch", "raised"}
          /\ written = <<>>
          /\ hri_csv = NoFile /\ trigger_json = NoFile /\ final_json = NoFile

\* every one of at least two requested days failed, and the run has raised
C6_Witness ==
    /\ pc = "raised"
    /\ nDays >= 2
    /\ Cardinality({u.day : u \in unavailable}) = nDays

\* C7: the table build_hri returns has as many rows as its input, row i of
\* the result carries the date (and the temperature) of row i of the input,
\* and the input table is left unchanged by the call.
C7_RowsMatchPositionally ==
    [][pc = "call" =>
          /\ Len(df_hri') = Len(df_daily)
          /\ \A i \in 1..Len(df_daily) :
                /\ df_hri'[i].date = df_daily[i].date
                /\ df_hri'[i].T_t = df_daily[i].T_t
          /\ df_daily' = df_daily]_vars

\* a three-row input with a day left out between two rows, and its result
C7_Witness ==
    /\ Returned
    /\ Len(df_daily) = 3
    /\ Len(df_hri) = 3
    /\ \E i \in 1..2 : df_daily[i+1].date > df_daily[i].date + 1
    /\ \A i \in 1..3 : df_hri[i].date = df_daily[i].date

\* C8: V_var of the first row is 0; for a later row it is |T_t - T_{t-1}|
\* when both are finite and 0 when either is missing; it is never negative
\* and never non-finite.
C8_VarIsAbsDiff ==
    Returned =>
        \A i \in 1..Len(df_hri) :
            LET v == df_hri[i].V_var
            IN /\ isfinite(v)
               /\ v >= 0
               /\ i = 1 => v = 0
               /\ (i > 1 /\ isfinite(df_hri[i].T_t) /\ isfinite(df_hri[i-1].T_t)) =>
                     \/ v = df_hri[i].T_t - df_hri[i-1].T_t
                     \/ v = df_hri[i-1].T_t - df_hri[i].T_t
               /\ (i > 1 /\ (~isfinite(df_hri[i].T_t) \/ ~isfinite(df_hri[i-1].T_t))) =>
                     v = 0

\* a fall of the temperature (a negative difference) next to a missing day
C8_Witness ==
    /\ Returned
    /\ \E i \in 2..Len(df_hri) - 1 :
          /\ isfinite(df_hri[i-1].T_t)
          /\ isfinite(df_hri[i].T_t)
          /\ df_hri[i].T_t < df_hri[i-1].T_t
          /\ df_hri[i].V_var > 0
          /\ ~isfinite(df_hri[i+1].T_t)
          /\ df_hri[i+1].V_var = 0

\* C9 (as claimed): a final event with triggered = true has level WATCH,
\* WARNING or SEVERE, never NORMAL or UNKNOWN.
C9_TriggeredLevelIsAlert ==
    (pc = "done" /\ final_json.decision.triggered) =>
        final_json.decision.level \in {"WATCH", "WARNING", "SEVERE"}

\* C10: in every row level and D_con agree: NORMAL or UNKNOWN exactly when
\* D_con = 0, WATCH exactly when D_con is 1 or 2, WARNING or SEVERE exactly
\* when D_con >= 3; and D_con never exceeds the 1-based position of the row.
C10_LevelAgreesWithDcon ==
    Returned =>
        \A i \in 1..Len(df_hri) :
            LET d == df_hri[i].D_con
                l == df_hri[i].level
            IN /\ l \in {"NORMAL", "UNKNOWN"} <=> d = 0
               /\ l = "WATCH" <=> d \in {1, 2}
               /\ l \in {"WARNING", "SEVERE"} <=> d >= WARNING_DURATION_DAYS
               /\ d <= i
               /\ l \in {"WARNING", "SEVERE"} =>
                     \A k \in 0..2 : i - k >= 1 /\ Qualifies(df_hri[i-k].T_t)

\* the third consecutive qualifying day, with the two WATCH days before it
C10_Witness ==
    /\ Returned
    /\ \E i \in 3..Len(df_hri) :
          /\ df_hri[i].D_con = 3
          /\ df_hri[i].level \in {"WARNING", "SEVERE"}
          /\ df_hri[i-1].level = "WATCH"
          /\ df_hri[i-2].level = "WATCH"

====
